---- MODULE Spec2Model ----
(***************************************************************************)
(* State-machine model of the recommendation engine                        *)
(* (src/services/recommendationEngine.js), of the route handlers that call *)
(* it (src/unnamed/part_000, src/routes/engagement.js) and of the database *)
(* handle they share (src/config/database.js).                             *)
(*                                                                         *)
(* Representation.                                                         *)
(*  - A JavaScript string is a sequence of one-character strings, so that  *)
(*    toLowerCase() and includes() are computed, not assumed.              *)
(*  - A document is a record; a key the document lacks, or holds as null,  *)
(*    is a key missing from the record's DOMAIN.  The one key the code     *)
(*    sets to undefined, score, holds <<v>> for a number v and Undefined   *)
(*    (the empty sequence) for undefined.                                  *)
(*  - "No document" (findOne returning null) is the empty sequence and a   *)
(*    found document d is <<d>>.                                           *)
(*  - A JavaScript number that need not be an integer is an exact fraction *)
(*    [n, d] with d >= 0; d = 0 encodes the IEEE values the code can       *)
(*    produce by dividing by zero: NaN (n = 0), +Infinity (n > 0) and      *)
(*    -Infinity (n < 0).  Rounding of doubles is not modelled.             *)
(*  - Time is counted in whole days: Date.now() is the variable now and    *)
(*    created_at is a day number.                                          *)
(***************************************************************************)
EXTENDS Integers, Sequences, FiniteSets, TLC

VARIABLES
    now,               \* Date.now(), in days
    dbConnected,       \* database.js: the module-level db handle is set
    store,             \* the four content collections, as one sequence of documents
    user_profiles,     \* collection user_profiles: user -> << >> or <<doc>>
    user_preferences,  \* collection user_preferences: user -> << >> or <<doc>>
    rank,              \* the ranking request in flight (recommendation routes)
    learn,             \* the updatePreferencesFromEngagement calls in flight
    probe,             \* a single calculateScore call on drawn inputs
    saved_items,       \* collection saved_items: <<user, item_id>> -> number of records
    likes_collection,  \* collection likes: <<user, item_id>> -> number of records
    click_throughs,    \* collection click_throughs: <<user, item_id>> -> number of records
    routes             \* the engagement and content requests in flight

vars == <<now, dbConnected, store, user_profiles, user_preferences, rank, learn, probe,
          saved_items, likes_collection, click_throughs, routes>>

-----------------------------------------------------------------------------
(* Bounds of the model *)

\* most documents in the content collections
MaxItems == 2
\* largest limit a request asks for
MaxLimit == 2
\* most learning calls started in one behaviour
MaxEvents == 3
\* most engagement and view requests started in one behaviour
MaxRequests == 2

-----------------------------------------------------------------------------
(* JavaScript values *)

Undefined == << >>

\* the missing result of findOne
NoDoc == << >>

\* doc.key is neither undefined nor null
Has(doc, key) == key \in DOMAIN doc

\* doc.key || 0 for a counter field
OrZero(doc, key) == IF Has(doc, key) THEN doc[key] ELSE 0

\* doc.key || [] for an array field
OrEmptyArray(doc, key) == IF Has(doc, key) THEN doc[key] ELSE << >>

\* doc.key is a non-empty string (the empty string is falsy)
HasString(doc, key) == Has(doc, key) /\ doc[key] # << >>

\* doc.key || '' for a string field
OrEmptyString(doc, key) == IF HasString(doc, key) THEN doc[key] ELSE << >>

Min(a, b) == IF a <= b THEN a ELSE b
Max(a, b) == IF a >= b THEN a ELSE b
Abs(a) == IF a < 0 THEN -a ELSE a

RECURSIVE Gcd(_, _)
Gcd(a, b) == IF b = 0 THEN a ELSE Gcd(b, a % b)

-----------------------------------------------------------------------------
(* Numbers as exact fractions *)

NaN == [n |-> 0, d |-> 0]
PlusInfinity == [n |-> 1, d |-> 0]
MinusInfinity == [n |-> -1, d |-> 0]

IsNaN(x) == x.d = 0 /\ x.n = 0
IsFinite(x) == x.d > 0

\* num / den as JavaScript divides: x/0 is NaN or an infinity
Frac(num, den) ==
    IF den = 0
    THEN (IF num = 0 THEN NaN ELSE IF num > 0 THEN PlusInfinity ELSE MinusInfinity)
    ELSE LET s == IF den < 0 THEN -1 ELSE 1
             g == Gcd(Abs(num), Abs(den))
         IN [n |-> (s * num) \div g, d |-> (s * den) \div g]

Num(k) == [n |-> k, d |-> 1]

RAdd(x, y) ==
    IF IsNaN(x) \/ IsNaN(y) THEN NaN
    ELSE IF x.d = 0 /\ y.d = 0 THEN (IF x.n = y.n THEN x ELSE NaN)
    ELSE IF x.d = 0 THEN x
    ELSE IF y.d = 0 THEN y
    ELSE Frac(x.n * y.d + y.n * x.d, x.d * y.d)

\* x * (num / den), num >= 0 and den > 0
RScale(x, num, den) ==
    IF x.d = 0 THEN (IF num = 0 THEN NaN ELSE x)
    ELSE Frac(x.n * num, x.d * den)

\* x < y as JavaScript compares: false when either is NaN
RLt(x, y) ==
    IF IsNaN(x) \/ IsNaN(y) THEN FALSE
    ELSE IF x.d = 0 /\ y.d = 0 THEN x.n < y.n
    ELSE IF x.d = 0 THEN x.n < 0
    ELSE IF y.d = 0 THEN y.n > 0
    ELSE x.n * y.d < y.n * x.d

RLeq(x, y) == ~IsNaN(x) /\ ~IsNaN(y) /\ ~RLt(y, x)

\* Math.min(x, y): NaN when either is NaN
RMin(x, y) == IF IsNaN(x) \/ IsNaN(y) THEN NaN ELSE IF RLt(y, x) THEN y ELSE x

-----------------------------------------------------------------------------
(* Strings *)

UpperCase == <<"A","B","C","D","E","F","G","H","I","J","K","L","M",
               "N","O","P","Q","R","S","T","U","V","W","X","Y","Z">>
LowerCase == <<"a","b","c","d","e","f","g","h","i","j","k","l","m",
               "n","o","p","q","r","s","t","u","v","w","x","y","z">>

LowerChar(c) ==
    IF \E i \in 1..Len(UpperCase) : UpperCase[i] = c
    THEN LowerCase[CHOOSE i \in 1..Len(UpperCase) : UpperCase[i] = c]
    ELSE c

\* String.prototype.toLowerCase
toLowerCase(s) == [i \in 1..Len(s) |-> LowerChar(s[i])]

\* String.prototype.includes
includes(s, t) ==
    \E i \in 1..(Len(s) - Len(t) + 1) : SubSeq(s, i, i + Len(t) - 1) = t

\* Array.prototype.filter
filter(seq, Test(_)) == SelectSeq(seq, Test)

\* Array.prototype.some
some(seq, Test(_)) == \E i \in 1..Len(seq) : Test(seq[i])

\* Array.prototype.slice(0, end) for an integer end
slice0(seq, end) ==
    LET k == IF end < 0 THEN Max(Len(seq) + end, 0) ELSE Min(end, Len(seq))
    IN SubSeq(seq, 1, k)

-----------------------------------------------------------------------------
(* The Scorer: recommendationEngine.js, calculateScore and its sub-scores *)

\* An interests or skills value is an array of strings, as the profile holds
\* it and as the matchers read it, or an object mapping a string to a weight,
\* as updatePreferencesFromEngagement writes it.  Weights are counted in
\* halves, so that the click-through increment 0.5 is the integer 1.
Array(items) == [kind |-> "array", items |-> items]
Object(weights) == [kind |-> "object", weights |-> weights]

\* the result of a call that may throw
Returned(v) == [threw |-> FALSE, value |-> v]
Threw == [threw |-> TRUE, value |-> NaN]

\* userProfile?.key || userPreferences?.key || fallback
FirstTruthy(userProfile, userPreferences, key, fallback) ==
    IF userProfile # NoDoc /\ Has(userProfile[1], key) THEN userProfile[1][key]
    ELSE IF userPreferences # NoDoc /\ Has(userPreferences[1], key)
         THEN userPreferences[1][key]
         ELSE fallback

\* value.length === 0: an object has no length, and undefined === 0 is false
LengthIsZero(value) == value.kind = "array" /\ Len(value.items) = 0

\* a.toLowerCase().includes(b.toLowerCase()) || b.toLowerCase().includes(a.toLowerCase())
EitherIncludes(a, b) ==
    \/ includes(toLowerCase(a), toLowerCase(b))
    \/ includes(toLowerCase(b), toLowerCase(a))

calculateInterestMatch(item, userProfile, userPreferences) ==
    LET userInterests == FirstTruthy(userProfile, userPreferences, "interests", Array(<< >>))
        itemTags == OrEmptyArray(item, "tags")
    IN  IF LengthIsZero(userInterests) \/ Len(itemTags) = 0 THEN Returned(Num(0))
        \* userInterests.some is not a function
        ELSE IF userInterests.kind # "array" THEN Threw
        ELSE LET matchedInterests ==
                     filter(itemTags, LAMBDA tag :
                         some(userInterests.items, LAMBDA interest : EitherIncludes(interest, tag)))
             IN Returned(Frac(Len(matchedInterests) * 100, Len(userInterests.items)))

calculateSkillMatch(item, userProfile, userPreferences) ==
    LET userSkills == FirstTruthy(userProfile, userPreferences, "skills", Array(<< >>))
        itemRequirements == OrEmptyArray(item, "requirements")
    IN  IF LengthIsZero(userSkills) \/ Len(itemRequirements) = 0 THEN Returned(Num(0))
        \* userSkills.some is not a function
        ELSE IF userSkills.kind # "array" THEN Threw
        ELSE LET matchedSkills ==
                     filter(itemRequirements, LAMBDA req :
                         some(userSkills.items, LAMBDA skill : EitherIncludes(skill, req)))
             IN Returned(Frac(Len(matchedSkills) * 100, Len(itemRequirements)))

S_remote == <<"r","e","m","o","t","e">>
S_virtual == <<"v","i","r","t","u","a","l">>
S_online == <<"o","n","l","i","n","e">>

\* the location rules with the country rule tried before the province rule
calculateLocationMatch_CountryBeforeProvince(item, userProfile, userPreferences) ==
    LET userLocation == FirstTruthy(userProfile, userPreferences, "location_data", << >>)
        itemLocation == OrEmptyString(item, "location")
        lower == toLowerCase(itemLocation)
    IN  IF /\ ~HasString(userLocation, "country")
           /\ ~HasString(userLocation, "province")
           /\ ~HasString(userLocation, "city")
        THEN 50
        ELSE IF includes(lower, S_remote) \/ includes(lower, S_virtual) \/ includes(lower, S_online)
        THEN 100
        ELSE IF HasString(userLocation, "city") /\ includes(lower, toLowerCase(userLocation.city))
        THEN 100
        ELSE IF HasString(userLocation, "country")
                /\ includes(lower, toLowerCase(userLocation.country))
        THEN 60
        ELSE IF HasString(userLocation, "province")
                /\ includes(lower, toLowerCase(userLocation.province))
        THEN 80
        ELSE 20

calculateLocationMatch(item, userProfile, userPreferences) ==
    LET userLocation == FirstTruthy(userProfile, userPreferences, "location_data", << >>)
        itemLocation == OrEmptyString(item, "location")
        lower == toLowerCase(itemLocation)
    IN  IF /\ ~HasString(userLocation, "country")
           /\ ~HasString(userLocation, "province")
           /\ ~HasString(userLocation, "city")
        THEN 50
        ELSE IF includes(lower, S_remote) \/ includes(lower, S_virtual) \/ includes(lower, S_online)
        THEN 100
        ELSE IF HasString(userLocation, "city") /\ includes(lower, toLowerCase(userLocation.city))
        THEN 100
        ELSE IF HasString(userLocation, "province")
                /\ includes(lower, toLowerCase(userLocation.province))
        THEN 80
        ELSE IF HasString(userLocation, "country")
                /\ includes(lower, toLowerCase(userLocation.country))
        THEN 60
        ELSE 20

\* this.decayRate = 0.1, as its inverse
DecayRateInverse == 10

\* (Date.now() - new Date(item.created_at).getTime()) / (1000 * 60 * 60 * 24)
ageInDays(item) == now - item.created_at

calculateDecayedPopularity(item) ==
    LET likes == OrZero(item, "likes_count")
        saves == OrZero(item, "saves_count")
        views == OrZero(item, "views")
        popularity == likes + saves + views
        \* popularity / (1 + ageInDays * decayRate)
        decayedPopularity ==
            Frac(popularity * DecayRateInverse, DecayRateInverse + ageInDays(item))
    IN  RMin(RScale(decayedPopularity, 1, 10), Num(100))

\* the recency steps with strict comparisons
calculateRecency_StrictBounds(item) ==
    IF ageInDays(item) < 1 THEN 100
    ELSE IF ageInDays(item) < 7 THEN 80
    ELSE IF ageInDays(item) < 30 THEN 60
    ELSE IF ageInDays(item) < 90 THEN 40
    ELSE 20

calculateRecency(item) ==
    IF ageInDays(item) <= 1 THEN 100
    ELSE IF ageInDays(item) <= 7 THEN 80
    ELSE IF ageInDays(item) <= 30 THEN 60
    ELSE IF ageInDays(item) <= 90 THEN 40
    ELSE 20

\* Math.random() * 100 lies in [0, 100); these are the draws the model takes
ExploreDraws == {0, 99}

calculateExploreFactor(item, random) == random

\* the weights of the final score, in hundredths
InterestWeight == 40
SkillWeight == 25
LocationWeight == 5
PopularityWeight == 15
RecencyWeight == 10
ExploreWeight == 5

totalScore(scores) ==
    RAdd(RScale(scores.interestMatch, InterestWeight, 100),
    RAdd(RScale(scores.skillMatch, SkillWeight, 100),
    RAdd(RScale(scores.locationMatch, LocationWeight, 100),
    RAdd(RScale(scores.popularity, PopularityWeight, 100),
    RAdd(RScale(scores.recency, RecencyWeight, 100),
         RScale(scores.explore, ExploreWeight, 100))))))

\* { ...item, score: totalScore, scoreBreakdown: scores }
ScoredCandidate(item, scores) ==
    [score |-> <<totalScore(scores)>>, scoreBreakdown |-> scores] @@ item

\* calculateScore is async: Threw is its promise rejecting
calculateScore(item, userProfile, userPreferences, random) ==
    LET personal == userProfile # NoDoc \/ userPreferences # NoDoc
        interest == IF personal
                    THEN calculateInterestMatch(item, userProfile, userPreferences)
                    ELSE Returned(Num(0))
        skill == IF personal
                 THEN calculateSkillMatch(item, userProfile, userPreferences)
                 ELSE Returned(Num(0))
        location == IF personal
                    THEN calculateLocationMatch(item, userProfile, userPreferences)
                    ELSE 0
        scores == [interestMatch |-> interest.value,
                   skillMatch |-> skill.value,
                   locationMatch |-> Num(location),
                   popularity |-> calculateDecayedPopularity(item),
                   recency |-> Num(calculateRecency(item)),
                   explore |-> Num(calculateExploreFactor(item, random))]
    IN  IF interest.threw \/ skill.threw THEN Threw
        ELSE Returned(ScoredCandidate(item, scores))


-----------------------------------------------------------------------------
(* The Content Source and the rankers *)

\* the collections in the order getActiveContent queries them
Collections == <<"opportunities", "events", "jobs", "resources">>

\* the type each query annotates its documents with
TypeOf(coll) ==
    CASE coll = "opportunities" -> "opportunity"
      [] coll = "events" -> "event"
      [] coll = "jobs" -> "job"
      [] coll = "resources" -> "resource"

ContentTypes == {"opportunity", "event", "job", "resource", "all"}

\* the collections a call of getActiveContent(contentType) queries, in order
Queried(contentType) ==
    SelectSeq(Collections, LAMBDA coll : contentType = "all" \/ contentType = TypeOf(coll))

\* a find without the status filter
FindActive_AnyStatus(docs, coll) ==
    LET found == SelectSeq(docs, LAMBDA doc : doc.coll = coll)
    IN [i \in 1..Len(found) |-> [type |-> TypeOf(coll)] @@ found[i]]

\* db.collection(coll).find({ status: 'active' }).toArray(), then
\* .map(item => ({ ...item, type }))
FindActive(docs, coll) ==
    LET found == SelectSeq(docs, LAMBDA doc : doc.coll = coll /\ doc.status = "active")
    IN [i \in 1..Len(found) |-> [type |-> TypeOf(coll)] @@ found[i]]

RECURSIVE Concat(_)
Concat(seqs) == IF seqs = << >> THEN << >> ELSE Head(seqs) \o Concat(Tail(seqs))

\* getActiveContent on one snapshot of the collections
getActiveContent(docs, contentType) ==
    Concat([k \in 1..Len(Queried(contentType)) |-> FindActive(docs, Queried(contentType)[k])])

\* the number a candidate's score key holds
ScoreOf(item) == item.score[1]

\* The comparator (a, b) => b.score - a.score puts b before a when it is
\* positive.  It is a consistent comparator exactly when no score is NaN.
ComparatorConsistent(seq) == \A i \in 1..Len(seq) : ~IsNaN(ScoreOf(seq[i]))

\* insertion of x behind every element whose score is not lower
RECURSIVE InsertDescending(_, _)
InsertDescending(sorted, x) ==
    IF sorted = << >> THEN <<x>>
    ELSE IF RLt(ScoreOf(Head(sorted)), ScoreOf(x)) THEN <<x>> \o sorted
    ELSE <<Head(sorted)>> \o InsertDescending(Tail(sorted), x)

RECURSIVE StableSortDescending(_)
StableSortDescending(seq) ==
    IF seq = << >> THEN << >>
    ELSE InsertDescending(StableSortDescending(SubSeq(seq, 1, Len(seq) - 1)), seq[Len(seq)])

\* Array.prototype.sort((a, b) => b.score - a.score): stable for a consistent
\* comparator; with an inconsistent one the order is implementation-defined
sortByScore(seq) ==
    IF ComparatorConsistent(seq)
    THEN {StableSortDescending(seq)}
    ELSE {[i \in 1..Len(seq) |-> seq[p[i]]] : p \in Permutations(1..Len(seq))}

\* .map(item => ({ ...item, score: undefined }))
StripScore(seq) == [i \in 1..Len(seq) |-> [score |-> Undefined] @@ seq[i]]

\* a recency term added to the cold-start score
coldStartScore_WithRecency(item) ==
    OrZero(item, "likes_count") + OrZero(item, "saves_count") + OrZero(item, "views")
    + calculateRecency(item)

\* the score getColdStartRecommendations gives a candidate
coldStartScore(item) ==
    OrZero(item, "likes_count") + OrZero(item, "saves_count") + OrZero(item, "views")

\* getColdStartRecommendations once its content is fetched: the lists it may
\* return (one list, since its scores are integers)
getColdStartRecommendations(content, limit) ==
    LET scored == [i \in 1..Len(content) |->
                      [score |-> <<Num(coldStartScore(content[i]))>>] @@ content[i]]
    IN {StripScore(slice0(sorted, limit)) : sorted \in sortByScore(scored)}

\* the second negation dropped: if (!userProfile && userPreferences)
isColdStart_NegationDropped(userProfile, userPreferences) ==
    userProfile = NoDoc /\ userPreferences # NoDoc

\* if (!userProfile && !userPreferences)
isColdStart(userProfile, userPreferences) == userProfile = NoDoc /\ userPreferences = NoDoc


-----------------------------------------------------------------------------
(* The documents the model draws from *)

S_go == <<"g","o">>
S_Go == <<"G","o">>
S_golang == <<"g","o","l","a","n","g">>
S_sql == <<"s","q","l">>
S_SQL == <<"S","Q","L">>
S_Remote == <<"R","e","m","o","t","e">>
S_Oslo == <<"O","s","l","o">>
S_Viken == <<"V","i","k","e","n">>
S_NO == <<"N","O">>
S_OsloNO == <<"O","s","l","o",","," ","N","O">>
S_VikenNO == <<"V","i","k","e","n",","," ","N","O">>
S_BergenNO == <<"B","e","r","g","e","n",","," ","N","O">>
S_RemoteOslo == <<"R","e","m","o","t","e"," ","-"," ","O","s","l","o">>
S_Lima == <<"L","i","m","a">>

Users == {"u_new", "u_profile", "u_learned"}

\* the profile and the preferences each user of the ranking model has:
\* u_new has neither, u_profile an onboarding profile, u_learned only the
\* preferences that updatePreferencesFromEngagement wrote
Profiles ==
    [u \in Users |->
        IF u = "u_profile"
        THEN <<[user_id |-> u, interests |-> Array(<<S_go>>), skills |-> Array(<<S_sql>>),
                location_data |-> [city |-> S_Oslo, country |-> S_NO]]>>
        ELSE NoDoc]

Preferences ==
    [u \in Users |->
        IF u = "u_learned"
        THEN <<[user_id |-> u, interests |-> Object((S_go :> 2)),
                skills |-> Object((S_sql :> 2))]>>
        ELSE NoDoc]

\* The content documents of the ranking model, without their _id.  created_at
\* is given relative to day 0, the day the ranking model runs on.
ContentShapes ==
    { [coll |-> "jobs", status |-> "active", tags |-> <<S_go>>, requirements |-> <<S_sql>>,
       location |-> S_OsloNO, created_at |-> 0,
       likes_count |-> 1, saves_count |-> 0, views |-> 1],
      \* likes_count null: as many engagements as the first, older
      [coll |-> "opportunities", status |-> "active", tags |-> <<S_Go, S_golang>>,
       location |-> S_Remote, created_at |-> -40,
       saves_count |-> 2, views |-> 0],
      \* dated ten days ahead, never engaged with
      [coll |-> "jobs", status |-> "active",
       created_at |-> 10,
       likes_count |-> 0, saves_count |-> 0, views |-> 0],
      \* soft-deleted
      [coll |-> "events", status |-> "deleted", tags |-> <<S_go>>,
       location |-> S_Lima, created_at |-> 0,
       likes_count |-> 5, saves_count |-> 2, views |-> 2],
      [coll |-> "resources", status |-> "active", tags |-> <<S_sql>>,
       requirements |-> <<S_go, S_sql>>, created_at |-> -10,
       likes_count |-> 2, saves_count |-> 1, views |-> 3] }

\* the stores of at most n documents; a document's _id is its place
StoresUpTo(n) ==
    UNION { { [i \in 1..m |-> [_id |-> i] @@ shapes[i]] : shapes \in [1..m -> ContentShapes] }
            : m \in 0..n }

-----------------------------------------------------------------------------
(* The parts of the state a specification leaves idle *)

Learners == {1, 2}

\* no updatePreferencesFromEngagement call in flight
LearnerIdle ==
    [pc |-> "idle", userId |-> "none", engagementType |-> "none", itemData |-> << >>,
     update |-> << >>, failed |-> FALSE, ret |-> "none"]

LearnIdle == [started |-> 0, call |-> [p \in Learners |-> LearnerIdle]]

\* no calculateScore call drawn
ProbeIdle == [stage |-> "none"]

\* the item ids of engagement requests: the _id of a content document, or 0,
\* an id no content document has
ItemIds == {0, 1}

\* an empty collection of engagement records
NoRecords == [key \in Users \X ItemIds |-> 0]

\* no request in flight
RequestIdle == [pc |-> "idle", op |-> "none", userId |-> "none", item_id |-> 0, status |-> 0]

RoutesIdle == [started |-> 0, req |-> [p \in Learners |-> RequestIdle]]

-----------------------------------------------------------------------------
(* Ranking requests: the recommendation routes and the two engine calls *)

\* no ranking request in flight
RankIdle ==
    [pc |-> "idle", call |-> "none", userId |-> "none", contentType |-> "none", limit |-> 0,
     userProfile |-> NoDoc, userPreferences |-> NoDoc, path |-> "none", k |-> 0,
     content |-> << >>, scoredContent |-> << >>, sorted |-> << >>,
     failed |-> FALSE, rejected |-> FALSE,
     ret |-> "none", result |-> << >>, status |-> 0]

\* The call ends by returning list (the route answers 200 with it).
ReturnList(r, list) ==
    [r EXCEPT !.pc = "done", !.ret = "returned", !.result = list, !.status = 200]

\* The call ends by throwing (the route's catch answers 500).
ThrowToRoute(r) ==
    [r EXCEPT !.pc = "done", !.ret = "threw", !.result = << >>, !.status = 500]

\* the cold start returned without await, so that its rejection passes the catch
RaiseIn_ColdStartNotAwaited(r) ==
    IF r.call = "getRecommendations" /\ r.path # "cold"
    THEN ReturnList(r, << >>)
    ELSE ThrowToRoute(r)

\* An error raised inside the call r: getRecommendations runs wholly inside
\* try { } catch { return [] }, the cold-start call it awaits included;
\* getColdStartRecommendations called by a trending route has no catch.
RaiseIn(r) ==
    IF r.call = "getRecommendations" THEN ReturnList(r, << >>) ELSE ThrowToRoute(r)

\* a Preference Store or Content Source call of r fails, or getDB() throws
StoreFailure(r) == RaiseIn([r EXCEPT !.failed = TRUE])

\* GET /recommendations, GET /recommendations/:type and the personalized feed
\* call getRecommendations; their validators admit a limit of 1 to 100.
StartGetRecommendations(u, contentType, limit) ==
    /\ rank.pc = "idle"
    /\ limit >= 1 /\ limit <= 100
    /\ LET r == [RankIdle EXCEPT !.call = "getRecommendations", !.userId = u,
                                 !.contentType = contentType, !.limit = limit]
       IN rank' = IF dbConnected THEN [r EXCEPT !.pc = "findProfile"] ELSE StoreFailure(r)
    /\ UNCHANGED <<now, dbConnected, store, user_profiles, user_preferences, learn, probe,
                 saved_items, likes_collection, click_throughs, routes>>

\* GET /trending/global and GET /trending/:type call
\* getColdStartRecommendations with parseInt(limit), which no validator bounds.
StartTrending(contentType, limit) ==
    /\ rank.pc = "idle"
    /\ LET r == [RankIdle EXCEPT !.call = "getColdStartRecommendations", !.path = "cold",
                                 !.contentType = contentType, !.limit = limit]
       IN rank' = IF dbConnected THEN [r EXCEPT !.pc = "fetch", !.k = 1] ELSE StoreFailure(r)
    /\ UNCHANGED <<now, dbConnected, store, user_profiles, user_preferences, learn, probe,
                 saved_items, likes_collection, click_throughs, routes>>

\* await db.collection('user_profiles').findOne({ user_id: userId })
FindProfile ==
    /\ rank.pc = "findProfile"
    /\ \E ok \in BOOLEAN :
         rank' = IF ok
                 THEN [rank EXCEPT !.pc = "findPreferences",
                                   !.userProfile = user_profiles[rank.userId]]
                 ELSE StoreFailure(rank)
    /\ UNCHANGED <<now, dbConnected, store, user_profiles, user_preferences, learn, probe,
                 saved_items, likes_collection, click_throughs, routes>>

\* await db.collection('user_preferences').findOne({ user_id: userId }), then
\* the choice between the cold start and the personalized ranking
FindPreferences ==
    /\ rank.pc = "findPreferences"
    /\ \E ok \in BOOLEAN :
         rank' = IF ok
                 THEN LET userPreferences == user_preferences[rank.userId]
                      IN [rank EXCEPT !.pc = "fetch", !.k = 1,
                                      !.userPreferences = userPreferences,
                                      !.path = IF isColdStart(rank.userProfile, userPreferences)
                                               THEN "cold" ELSE "personal"]
                 ELSE StoreFailure(rank)
    /\ UNCHANGED <<now, dbConnected, store, user_profiles, user_preferences, learn, probe,
                 saved_items, likes_collection, click_throughs, routes>>

\* getActiveContent: one awaited find per queried collection
FetchCollection ==
    /\ rank.pc = "fetch"
    /\ \E ok \in BOOLEAN :
         LET queried == Queried(rank.contentType)
         IN rank' = IF ok
                    THEN [rank EXCEPT !.content = @ \o FindActive(store, queried[rank.k]),
                                      !.k = @ + 1,
                                      !.pc = IF rank.k = Len(queried) THEN "rank" ELSE "fetch"]
                    ELSE StoreFailure(rank)
    /\ UNCHANGED <<now, dbConnected, store, user_profiles, user_preferences, learn, probe,
                 saved_items, likes_collection, click_throughs, routes>>

\* getColdStartRecommendations: score by engagement, sort, slice, strip
RankColdStart ==
    /\ rank.pc = "rank" /\ rank.path = "cold"
    /\ \E list \in getColdStartRecommendations(rank.content, rank.limit) :
         rank' = ReturnList(rank, list)
    /\ UNCHANGED <<now, dbConnected, store, user_profiles, user_preferences, learn, probe,
                 saved_items, likes_collection, click_throughs, routes>>

\* getRecommendations: Promise.all of calculateScore, sort, slice, strip
RankPersonalized ==
    /\ rank.pc = "rank" /\ rank.path = "personal"
    /\ \E random \in [1..Len(rank.content) -> ExploreDraws] :
         LET calls == [i \in 1..Len(rank.content) |->
                          calculateScore(rank.content[i], rank.userProfile,
                                         rank.userPreferences, random[i])]
         IN IF \E i \in 1..Len(calls) : calls[i].threw
            THEN rank' = RaiseIn([rank EXCEPT !.rejected = TRUE])
            ELSE LET scoredContent == [i \in 1..Len(calls) |-> calls[i].value]
                 IN \E sorted \in sortByScore(scoredContent) :
                      rank' = ReturnList(
                                 [rank EXCEPT !.scoredContent = scoredContent,
                                              !.sorted = sorted],
                                 StripScore(slice0(sorted, rank.limit)))
    /\ UNCHANGED <<now, dbConnected, store, user_profiles, user_preferences, learn, probe,
                 saved_items, likes_collection, click_throughs, routes>>

\* res.json(...) or the route's catch: the response is sent
Respond ==
    /\ rank.pc = "done"
    /\ rank' = RankIdle
    /\ UNCHANGED <<now, dbConnected, store, user_profiles, user_preferences, learn, probe,
                 saved_items, likes_collection, click_throughs, routes>>

\* connectDB sets the module-level handle that getDB checks
connectDB ==
    /\ ~dbConnected
    /\ dbConnected' = TRUE
    /\ UNCHANGED <<now, store, user_profiles, user_preferences, rank, learn, probe,
                 saved_items, likes_collection, click_throughs, routes>>

\* the limits a trending request may carry: parseInt of any query string
TrendingLimits == {-1} \cup (0..MaxLimit)

InitWith(stores) ==
    /\ now = 0
    /\ dbConnected = FALSE
    /\ store \in stores
    /\ user_profiles = Profiles
    /\ user_preferences = Preferences
    /\ rank = RankIdle
    /\ learn = LearnIdle
    /\ probe = ProbeIdle
    /\ saved_items = NoRecords
    /\ likes_collection = NoRecords
    /\ click_throughs = NoRecords
    /\ routes = RoutesIdle

Next ==
    \/ connectDB
    \/ \E u \in Users, contentType \in ContentTypes, limit \in 1..MaxLimit :
         StartGetRecommendations(u, contentType, limit)
    \/ \E contentType \in ContentTypes, limit \in TrendingLimits :
         StartTrending(contentType, limit)
    \/ FindProfile
    \/ FindPreferences
    \/ FetchCollection
    \/ RankColdStart
    \/ RankPersonalized
    \/ Respond

Init == InitWith(StoresUpTo(MaxItems))

Spec == Init /\ [][Next]_vars

\* the same requests over stores of one more document
InitWide == InitWith(StoresUpTo(MaxItems + 1))

SpecWide == InitWide /\ [][Next]_vars


-----------------------------------------------------------------------------
(* Claims about the rankers *)

\* the engine call of the request in flight has returned a list
Returned_ == rank.pc = "done" /\ rank.ret = "returned"

Results == {rank.result[i] : i \in 1..Len(rank.result)}

HasScoreValue(item) == Has(item, "score") /\ item.score # Undefined

\* C1: no item returned by getRecommendations or getColdStartRecommendations
\* carries a score value or a scoreBreakdown.
C1_NoScoreFields ==
    Returned_ => \A item \in Results : ~HasScoreValue(item) /\ ~Has(item, "scoreBreakdown")

\* C2: the list returned by getRecommendations and by
\* getColdStartRecommendations has at most limit items, for every limit (and
\* no item when the limit is below 0).
C2_AtMostLimit == Returned_ => Len(rank.result) <= Max(rank.limit, 0)

\* C3: for a user with neither a profile nor a preferences document,
\* getRecommendations returns exactly the list getColdStartRecommendations
\* returns for the same content type and limit on the same content.
C3_ColdStartDelegation ==
    ( /\ rank.pc = "done" /\ rank.call = "getRecommendations" /\ ~rank.failed
      /\ user_profiles[rank.userId] = NoDoc
      /\ user_preferences[rank.userId] = NoDoc )
    => /\ rank.ret = "returned"
       /\ getColdStartRecommendations(getActiveContent(store, rank.contentType), rank.limit)
              = {rank.result}

C3_Witness ==
    /\ rank.pc = "done" /\ rank.call = "getRecommendations" /\ ~rank.failed
    /\ rank.userId = "u_new" /\ rank.contentType = "job"
    /\ Len(rank.result) >= 2

\* the combined score calculateScore gave the candidate a returned item came from
CandidateScore(item) ==
    ScoreOf(CHOOSE c \in {rank.scoredContent[i] : i \in 1..Len(rank.scoredContent)} :
                c._id = item._id)

LeftOut ==
    {c \in {rank.scoredContent[i] : i \in 1..Len(rank.scoredContent)} :
        \A item \in Results : item._id # c._id}

\* C4: on the personalized path the returned list is in non-increasing order
\* of combined score (no item stands behind one of strictly lower score), and
\* no candidate left out has a strictly higher score than a returned one.
C4_TopByScore ==
    (Returned_ /\ rank.path = "personal" /\ ~rank.failed /\ ~rank.rejected)
    => /\ \A i, j \in 1..Len(rank.result) :
            i < j => ~RLt(CandidateScore(rank.result[i]), CandidateScore(rank.result[j]))
       /\ \A c \in LeftOut : \A item \in Results : ~RLt(CandidateScore(item), ScoreOf(c))

\* the place of a returned item in the fetched content
FetchIndex(item) == CHOOSE i \in 1..Len(rank.content) : rank.content[i]._id = item._id

\* likes_count + saves_count + views, a missing counter counting as 0
Engagement(item) ==
    (IF "likes_count" \in DOMAIN item THEN item.likes_count ELSE 0)
    + (IF "saves_count" \in DOMAIN item THEN item.saves_count ELSE 0)
    + (IF "views" \in DOMAIN item THEN item.views ELSE 0)

C8_RecommendationsDegrade ==
    (rank.pc = "done" /\ rank.call = "getRecommendations" /\ rank.failed)
    => rank.ret = "returned" /\ rank.result = << >>

\* a content query of the delegated cold start fails
C8_Witness ==
    /\ rank.pc = "done" /\ rank.call = "getRecommendations" /\ rank.failed
    /\ rank.path = "cold" /\ rank.k >= 1 /\ dbConnected

\* C9: if the Content Source fails while getColdStartRecommendations is called
\* directly, the call returns the empty list and does not throw.
C9_TrendingDegrades ==
    (rank.pc = "done" /\ rank.call = "getColdStartRecommendations" /\ rank.failed)
    => rank.ret = "returned" /\ rank.result = << >>


-----------------------------------------------------------------------------
(* calculateScore on drawn inputs *)

\* records over the keys of fields whose value is not "absent"; fields maps
\* each key to the values it may take, "absent" standing for a missing key
Optional(values) == {<<v>> : v \in values} \cup {<< >>}

ProbeItems ==
    { [created_at |-> c, saves_count |-> 0, views |-> v]
        @@ (IF t = << >> THEN << >> ELSE [tags |-> t[1]])
        @@ (IF r = << >> THEN << >> ELSE [requirements |-> r[1]])
        @@ (IF l = << >> THEN << >> ELSE [location |-> l[1]])
        @@ (IF k = << >> THEN << >> ELSE [likes_count |-> k[1]]) :
        c \in {20, 10, 0, -5, -40, -100},
        v \in {0, 3000},
        t \in Optional({<< >>, <<S_go>>, <<S_Go, S_golang>>}),
        r \in Optional({<<S_sql>>, <<S_go, S_sql>>}),
        l \in Optional({S_Remote, S_OsloNO}),
        k \in Optional({1}) }

ProbeProfiles ==
    {NoDoc} \cup
    { <<[user_id |-> "u"]
          @@ (IF i = << >> THEN << >> ELSE [interests |-> i[1]])
          @@ (IF k = << >> THEN << >> ELSE [skills |-> k[1]])
          @@ (IF l = << >> THEN << >> ELSE [location_data |-> l[1]])>> :
        i \in Optional({Array(<< >>), Array(<<S_go>>), Array(<<S_go, S_sql>>)}),
        k \in Optional({Array(<<S_sql>>)}),
        l \in Optional({[city |-> S_Oslo, country |-> S_NO]}) }

ProbePreferences ==
    {NoDoc} \cup
    { <<[user_id |-> "u"]
          @@ (IF i = << >> THEN << >> ELSE [interests |-> i[1]])
          @@ (IF k = << >> THEN << >> ELSE [skills |-> k[1]])>> :
        i \in Optional({Array(<<S_golang>>), Object((S_go :> 2))}),
        k \in Optional({Object((S_sql :> 2))}) }

InitScore ==
    /\ now = 0
    /\ dbConnected = FALSE
    /\ store = << >>
    /\ user_profiles = Profiles
    /\ user_preferences = Preferences
    /\ rank = RankIdle
    /\ learn = LearnIdle
    /\ saved_items = NoRecords
    /\ likes_collection = NoRecords
    /\ click_throughs = NoRecords
    /\ routes = RoutesIdle
    /\ \E item \in ProbeItems, userProfile \in ProbeProfiles,
          userPreferences \in ProbePreferences :
         probe = [stage |-> "drawn", item |-> item, userProfile |-> userProfile,
                  userPreferences |-> userPreferences]

\* one call calculateScore(item, userProfile, userPreferences)
CallCalculateScore ==
    /\ probe.stage = "drawn"
    /\ \E random \in ExploreDraws :
         probe' = [stage |-> "scored", item |-> probe.item,
                   userProfile |-> probe.userProfile,
                   userPreferences |-> probe.userPreferences,
                   out |-> calculateScore(probe.item, probe.userProfile,
                                          probe.userPreferences, random)]
    /\ UNCHANGED <<now, dbConnected, store, user_profiles, user_preferences, rank, learn,
                 saved_items, likes_collection, click_throughs, routes>>

NextScore == CallCalculateScore

SpecScore == InitScore /\ [][NextScore]_vars

\* the call was made and its promise is settled
Scored == probe.stage = "scored"

\* C6: calculateScore never fails: for every item and every combination of
\* profile and preferences, weight-map preferences included, it returns a
\* scored candidate.
C6_NeverFails == Scored => ~probe.out.threw

InRange(x) == RLeq(Num(0), x) /\ RLeq(x, Num(100))

\* C7: each of the six sub-scores and the combined score lies in [0, 100].
C7_ScoresInRange ==
    (Scored /\ ~probe.out.threw)
    => /\ \A name \in DOMAIN probe.out.value.scoreBreakdown :
            InRange(probe.out.value.scoreBreakdown[name])
       /\ InRange(ScoreOf(probe.out.value))


-----------------------------------------------------------------------------
(* The Preference Learner: updatePreferencesFromEngagement *)

\* weights are stored in halves
One == 2
Half == 1

\* an idempotent merge: a key already weighted keeps its weight
IncrementKey_SetsOnce(value, key, increment) ==
    IF value.kind = "object"
    THEN LET w == value.weights
         IN Object([x \in DOMAIN w \cup {key} |->
                       IF x \in DOMAIN w THEN w[x] ELSE increment])
    ELSE value

\* value[key] = (value[key] || 0) + increment.  On an object this sets the
\* key.  On an array it sets a property that is no element, which the
\* driver does not write when it serializes the array.
IncrementKey(value, key, increment) ==
    IF value.kind = "object"
    THEN LET w == value.weights
         IN Object([x \in DOMAIN w \cup {key} |->
                       IF x = key
                       THEN (IF key \in DOMAIN w THEN w[key] ELSE 0) + increment
                       ELSE w[x]])
    ELSE value

\* keys.forEach(key => { value[key] = (value[key] || 0) + increment })
RECURSIVE IncrementAll(_, _, _)
IncrementAll(value, keys, increment) ==
    IF keys = << >> THEN value
    ELSE IncrementAll(IncrementKey(value, Head(keys), increment), Tail(keys), increment)

\* preferences.key || {}
OrEmptyObject(doc, key) == IF Has(doc, key) THEN doc[key] ELSE Object(<< >>)

\* the engagement types the call learns from
LearnedTypes == {"save", "like", "click_through"}

\* a click_through learned like a save
LearnedUpdate_ClickAsSave(preferences, engagementType, itemData) ==
    [interests |-> IncrementAll(OrEmptyObject(preferences, "interests"),
                                OrEmptyArray(itemData, "tags"), One),
     skills |-> IncrementAll(OrEmptyObject(preferences, "skills"),
                             OrEmptyArray(itemData, "requirements"), One),
     updated_at |-> now]

\* the $set document the call builds from the preferences it read
LearnedUpdate(preferences, engagementType, itemData) ==
    LET tags == OrEmptyArray(itemData, "tags")
        requirements == OrEmptyArray(itemData, "requirements")
    IN  IF engagementType = "save" \/ engagementType = "like"
        THEN [interests |-> IncrementAll(OrEmptyObject(preferences, "interests"), tags, One),
              skills |-> IncrementAll(OrEmptyObject(preferences, "skills"), requirements, One),
              updated_at |-> now]
        ELSE [interests |-> IncrementAll(OrEmptyObject(preferences, "interests"), tags, Half),
              updated_at |-> now]

\* updateOne({ user_id }, { $set: fields }) without upsert
UpdateOne(collection, userId, fields) ==
    IF collection[userId] = NoDoc THEN collection
    ELSE [collection EXCEPT ![userId] = <<fields @@ collection[userId][1]>>]

\* the call ends by returning
LearnReturn(c) == [c EXCEPT !.pc = "done", !.ret = "returned"]

\* the catch block rethrowing what it caught
LearnRaise_Rethrow(c) == [c EXCEPT !.pc = "done", !.ret = "threw", !.failed = TRUE]

\* An error raised inside the call: its whole body runs inside
\* try { } catch (error) { console.error(...) }.
LearnRaise(c) == [c EXCEPT !.pc = "done", !.ret = "returned", !.failed = TRUE]

SetCall(p, c) == [learn EXCEPT !.call[p] = c]

\* the frame of a call just made: const db = getDB() throws inside the try
\* when the database is not connected
StartedCall(u, engagementType, itemData) ==
    LET c == [LearnerIdle EXCEPT !.userId = u, !.engagementType = engagementType,
                                 !.itemData = itemData]
    IN IF dbConnected THEN [c EXCEPT !.pc = "findOne"] ELSE LearnRaise(c)

\* the save, like and click routes call
\* updatePreferencesFromEngagement(userId, engagementType, content)
updatePreferencesFromEngagement(p, u, engagementType, itemData) ==
    /\ learn.call[p].pc = "idle"
    /\ learn.started < MaxEvents
    /\ learn' = [started |-> learn.started + 1,
                 call |-> [learn.call EXCEPT ![p] = StartedCall(u, engagementType, itemData)]]
    /\ UNCHANGED <<now, dbConnected, store, user_profiles, user_preferences, rank, probe,
                 saved_items, likes_collection, click_throughs, routes>>

\* a learner that creates the preferences document it does not find
LearnFindOne_CreatesDocument(p) ==
    /\ learn.call[p].pc = "findOne"
    /\ LET c == learn.call[p]
       IN /\ user_preferences' =
                IF user_preferences[c.userId] = NoDoc
                THEN [user_preferences EXCEPT ![c.userId] = <<[user_id |-> c.userId]>>]
                ELSE user_preferences
          /\ learn' = SetCall(p, LearnReturn(c))
    /\ UNCHANGED <<now, dbConnected, store, user_profiles, rank, probe,
                 saved_items, likes_collection, click_throughs, routes>>

\* await db.collection('user_preferences').findOne({ user_id: userId }), then
\* the synchronous code up to the update the call issues, if any: reading
\* itemData.tags of a null snapshot is a TypeError
LearnFindOne(p) ==
    /\ learn.call[p].pc = "findOne"
    /\ \E ok \in BOOLEAN :
         LET c == learn.call[p]
             preferences == user_preferences[c.userId]
             update == LearnedUpdate(preferences[1], c.engagementType, c.itemData[1])
         IN learn' = SetCall(p,
                IF ~ok THEN LearnRaise(c)
                ELSE IF preferences = NoDoc THEN LearnReturn(c)
                ELSE IF c.engagementType \notin LearnedTypes THEN LearnReturn(c)
                ELSE IF c.itemData = NoDoc THEN LearnRaise(c)
                ELSE [c EXCEPT !.pc = "updateOne", !.update = <<update>>])
    /\ UNCHANGED <<now, dbConnected, store, user_profiles, user_preferences, rank, probe,
                 saved_items, likes_collection, click_throughs, routes>>

\* a learner that also counts the engagement on the content document
LearnUpdateOne_CountsOnContent(p) ==
    /\ learn.call[p].pc = "updateOne"
    /\ LET c == learn.call[p]
       IN /\ user_preferences' = UpdateOne(user_preferences, c.userId, c.update[1])
          /\ learn' = SetCall(p, LearnReturn(c))
          /\ store' = [i \in DOMAIN store |->
                         IF store[i]._id = c.itemData[1]._id
                         THEN [store[i] EXCEPT !.saves_count = @ + 1]
                         ELSE store[i]]
    /\ UNCHANGED <<now, dbConnected, user_profiles, rank, probe,
                 saved_items, likes_collection, click_throughs, routes>>

\* await db.collection('user_preferences').updateOne({ user_id: userId }, { $set })
LearnUpdateOne(p) ==
    /\ learn.call[p].pc = "updateOne"
    /\ \E ok \in BOOLEAN :
         LET c == learn.call[p]
         IN IF ok
            THEN /\ user_preferences' = UpdateOne(user_preferences, c.userId, c.update[1])
                 /\ learn' = SetCall(p, LearnReturn(c))
            ELSE /\ learn' = SetCall(p, LearnRaise(c))
                 /\ UNCHANGED user_preferences
    /\ UNCHANGED <<now, dbConnected, store, user_profiles, rank, probe,
                 saved_items, likes_collection, click_throughs, routes>>

\* the caller's await of the call resumes
LearnDone(p) ==
    /\ learn.call[p].pc = "done"
    /\ learn' = SetCall(p, LearnerIdle)
    /\ UNCHANGED <<now, dbConnected, store, user_profiles, user_preferences, rank, probe,
                 saved_items, likes_collection, click_throughs, routes>>

\* the types the routes pass, and one the call does not learn from
EngagementTypes == LearnedTypes \cup {"view"}

\* the item snapshots the routes pass: the content document they re-read
\* or null
ItemSnapshots ==
    { <<[_id |-> 1, tags |-> <<S_go>>, requirements |-> <<S_sql>>]>>,
      <<[_id |-> 2, tags |-> <<S_go, S_golang>>]>>,
      <<[_id |-> 3]>>,
      NoDoc }

\* the preferences documents the learning model starts from: u_learned has
\* one, with or without weight maps, and the other users have none
LearnPreferences ==
    { [u \in Users |-> IF u = "u_learned" THEN <<doc>> ELSE NoDoc] :
        doc \in { [user_id |-> "u_learned"],
                  [user_id |-> "u_learned", interests |-> Array(<<S_go>>)],
                  [user_id |-> "u_learned", interests |-> Object((S_go :> 2)),
                   skills |-> Object((S_sql :> 2))] } }

InitLearn ==
    /\ now = 0
    /\ dbConnected = FALSE
    /\ store = << >>
    /\ user_profiles = Profiles
    /\ user_preferences \in LearnPreferences
    /\ rank = RankIdle
    /\ learn = LearnIdle
    /\ probe = ProbeIdle
    /\ saved_items = NoRecords
    /\ likes_collection = NoRecords
    /\ click_throughs = NoRecords
    /\ routes = RoutesIdle

NextLearn ==
    \/ connectDB
    \/ \E p \in Learners, u \in {"u_new", "u_learned"},
          engagementType \in EngagementTypes, itemData \in ItemSnapshots :
         updatePreferencesFromEngagement(p, u, engagementType, itemData)
    \/ \E p \in Learners : LearnFindOne(p)
    \/ \E p \in Learners : LearnUpdateOne(p)
    \/ \E p \in Learners : LearnDone(p)

SpecLearn == InitLearn /\ [][NextLearn]_vars

\* C10: updatePreferencesFromEngagement never raises to its caller, whatever
\* the user, the engagement type, the item snapshot and the store failures.
C10_LearnNeverRaises ==
    \A p \in Learners : learn.call[p].pc = "done" => learn.call[p].ret = "returned"

\* a call whose preference store write failed has completed
C10_Witness ==
    \E p \in Learners :
        /\ learn.call[p].pc = "done" /\ learn.call[p].failed
        /\ learn.call[p].update # Undefined


-----------------------------------------------------------------------------
(* Claims about the Preference Learner *)

\* the keys of the weight maps met in the model
WeightKeys == {S_go, S_golang, S_sql}

\* the stored weight of key in the weight map field of a user's preferences
\* document, 0 when the document, the map or the key is absent
Weight(preferences, u, field, key) ==
    IF preferences[u] = NoDoc THEN 0
    ELSE LET doc == preferences[u][1]
         IN IF Has(doc, field) /\ doc[field].kind = "object" /\ key \in DOMAIN doc[field].weights
            THEN doc[field].weights[key]
            ELSE 0

\* the number of times key occurs in the array field of an item snapshot
Occurrences(itemData, field, key) ==
    LET keys == OrEmptyArray(itemData, field)
    IN Cardinality({i \in DOMAIN keys : keys[i] = key})

\* the field of the user's preferences document is absent or a weight map
IsWeightMap(u, field) ==
    LET doc == user_preferences[u][1]
    IN Has(doc, field) => doc[field].kind = "object"

\* this step is call p's updateOne succeeding
Wrote(p) ==
    /\ learn.call[p].pc = "updateOne"
    /\ learn'.call[p].pc = "done"
    /\ ~learn'.call[p].failed

\* C11: for a user without a preferences document the call is a silent no-op:
\* it never issues its updateOne, and no step creates the document.
C11_NoPreferencesNoOp ==
    /\ [](\A p \in Learners :
            learn.call[p].pc = "updateOne" => user_preferences[learn.call[p].userId] # NoDoc)
    /\ [][\A u \in Users : user_preferences[u] = NoDoc => user_preferences'[u] = NoDoc]_vars

\* a call that learns from its engagement type, for a user without a
\* preferences document, has returned without failing
C11_Witness ==
    \E p \in Learners :
        LET c == learn.call[p]
        IN /\ c.pc = "done" /\ c.ret = "returned" /\ ~c.failed
           /\ c.engagementType \in LearnedTypes
           /\ c.itemData # NoDoc
           /\ user_preferences[c.userId] = NoDoc

\* the steps of one call after another: a single caller, awaiting each call
NextLearnSeq ==
    \/ connectDB
    \/ \E u \in {"u_new", "u_learned"},
          engagementType \in EngagementTypes, itemData \in ItemSnapshots :
         updatePreferencesFromEngagement(1, u, engagementType, itemData)
    \/ LearnFindOne(1)
    \/ LearnUpdateOne(1)
    \/ LearnDone(1)

SpecLearnSeq == InitLearn /\ [][NextLearnSeq]_vars

C17_NoLostUpdate ==
    [][\A p \in Learners :
         LET c == learn.call[p]
             inc == IF c.engagementType = "click_through" THEN Half ELSE One
         IN (Wrote(p) /\ IsWeightMap(c.userId, "interests") /\ IsWeightMap(c.userId, "skills"))
            => \A key \in WeightKeys :
                 /\ Weight(user_preferences', c.userId, "interests", key)
                      = Weight(user_preferences, c.userId, "interests", key)
                        + inc * Occurrences(c.itemData[1], "tags", key)
                 /\ c.engagementType # "click_through"
                      => Weight(user_preferences', c.userId, "skills", key)
                           = Weight(user_preferences, c.userId, "skills", key)
                             + inc * Occurrences(c.itemData[1], "requirements", key)]_vars

\* C18: no step lowers a stored interest or skill weight or removes a key.
C18_WeightsMonotone ==
    [][\A u \in Users, field \in {"interests", "skills"}, key \in WeightKeys :
         Weight(user_preferences', u, field, key) >= Weight(user_preferences, u, field, key)]_vars

-----------------------------------------------------------------------------
(* Claims about the source of interests and skills *)

\* C20: with both documents present, interestMatch and skillMatch are
\* computed from one source, the preferences whenever they hold the field
\* and the profile only when the preferences lack it.
C20_PreferencesFirst ==
    (Scored /\ ~probe.out.threw /\ probe.userProfile # NoDoc /\ probe.userPreferences # NoDoc)
    => LET fromSource(match(_, _, _), key) ==
               IF Has(probe.userPreferences[1], key)
               THEN match(probe.item, NoDoc, probe.userPreferences)
               ELSE match(probe.item, probe.userProfile, NoDoc)
           interest == fromSource(calculateInterestMatch, "interests")
           skill == fromSource(calculateSkillMatch, "skills")
       IN /\ ~interest.threw
               => probe.out.value.scoreBreakdown.interestMatch = interest.value
          /\ ~skill.threw
               => probe.out.value.scoreBreakdown.skillMatch = skill.value

-----------------------------------------------------------------------------
(* Ranking while content is soft-deleted *)

\* DELETE /:type/:id by the owner of document i:
\* updateOne({ _id: id }, { $set: { status: 'deleted', updated_at: new Date() } })
DeleteContent(i) ==
    /\ dbConnected
    /\ i \in DOMAIN store
    /\ store' = [store EXCEPT ![i] = [status |-> "deleted", updated_at |-> now] @@ @]
    /\ UNCHANGED <<now, dbConnected, user_profiles, user_preferences, rank, learn, probe,
                 saved_items, likes_collection, click_throughs, routes>>

NextCatalog ==
    \/ Next
    \/ \E i \in 1..MaxItems : DeleteContent(i)

\* full stores of opportunities, events and resources
CatalogStores ==
    { st \in StoresUpTo(MaxItems) :
        /\ Len(st) = MaxItems
        /\ \A i \in DOMAIN st : st[i].coll \in {"opportunities", "events", "resources"} }

InitCatalog == InitWith(CatalogStores)

SpecCatalog == InitCatalog /\ [][NextCatalog]_vars

\* document i is soft-deleted
Deleted(i) == i \in DOMAIN store /\ store[i].status = "deleted"

\* C16: every returned item was active when it was fetched, is of the
\* requested type (any type for "all") and carries the type of the collection
\* it came from; an item soft-deleted before a request starts is in no later
\* result.
C16_ActiveTypedAnnotated ==
    /\ [](Returned_ =>
            \A item \in Results :
                /\ item.status = "active"
                /\ rank.contentType = "all" \/ item.type = rank.contentType
                /\ item.type = TypeOf(item.coll))
    /\ \A i \in 1..MaxItems :
         []((Deleted(i) /\ rank.pc = "idle") => [](\A item \in Results : item._id # i))

\* a request for all types has returned items while a document deleted by
\* its owner is in the store
C16_Witness ==
    /\ Returned_ /\ rank.contentType = "all" /\ Len(rank.result) >= 1
    /\ \E i \in DOMAIN store : Deleted(i) /\ Has(store[i], "updated_at")

-----------------------------------------------------------------------------
(* The engagement routes: save, unsave, like, unlike, click, and the view
   counter of GET /:type/:id *)

Operations == {"save", "unsave", "like", "unlike", "click"}

\* the engagement type a route passes to the learner
EngagementTypeOf(op) ==
    CASE op = "save" -> "save"
      [] op = "like" -> "like"
      [] op = "click" -> "click_through"

\* the counter a route adjusts with $inc
CounterOf(op) == IF op \in {"save", "unsave"} THEN "saves_count" ELSE "likes_count"

\* the status of the route's success response
SuccessStatus(op) == IF op \in {"save", "like"} THEN 201 ELSE 200

\* the collection of engagement records a route works on
RecordsOf(op) ==
    IF op \in {"save", "unsave"} THEN saved_items
    ELSE IF op \in {"like", "unlike"} THEN likes_collection
    ELSE click_throughs

\* the route's collection becomes records, the other two stay
SetRecords(op, records) ==
    /\ saved_items' = IF op \in {"save", "unsave"} THEN records ELSE saved_items
    /\ likes_collection' = IF op \in {"like", "unlike"} THEN records ELSE likes_collection
    /\ click_throughs' = IF op = "click" THEN records ELSE click_throughs

\* db.collection(`${item_type}s`).findOne({ _id: item_id })
ContentOf(item_id) == IF item_id \in DOMAIN store THEN <<store[item_id]>> ELSE NoDoc

\* updateOne({ _id: item_id }, { $inc: { counter: delta } }): no document
\* matched, nothing written
IncCounter(docs, item_id, counter, delta) ==
    IF item_id \in DOMAIN docs
    THEN [docs EXCEPT ![item_id][counter] = @ + delta]
    ELSE docs

\* res.status(status).json(...)
RouteEnd(r, status) == [r EXCEPT !.pc = "done", !.status = status]

\* the route's catch: res.status(500)
RouteFail(r) == RouteEnd(r, 500)

SetRequest(p, r) == [routes EXCEPT !.req[p] = r]

RecordKey(r) == <<r.userId, r.item_id>>

\* a validated, authenticated request enters its handler; getDB() throws
\* inside the handler's try when the database is not connected
StartRequest(p, op, u, item_id) ==
    /\ routes.req[p].pc = "idle"
    /\ routes.started < MaxRequests
    /\ LET r == [RequestIdle EXCEPT !.op = op, !.userId = u, !.item_id = item_id]
       IN routes' = [started |-> routes.started + 1,
                     req |-> [routes.req EXCEPT ![p] =
                                 IF ~dbConnected THEN RouteFail(r)
                                 ELSE [r EXCEPT !.pc =
                                          CASE op \in {"save", "like"} -> "findExisting"
                                            [] op \in {"unsave", "unlike"} -> "deleteOne"
                                            [] op = "click" -> "insertOne"]]]
    /\ UNCHANGED <<now, dbConnected, store, user_profiles, user_preferences, rank, learn,
                   probe, saved_items, likes_collection, click_throughs>>

\* POST /save, POST /like: const existing = await findOne({ user_id, item_id,
\* item_type }); if (existing) return res.status(400)
FindExisting(p) ==
    /\ routes.req[p].pc = "findExisting"
    /\ \E ok \in BOOLEAN :
         LET r == routes.req[p]
         IN routes' = SetRequest(p,
                IF ~ok THEN RouteFail(r)
                ELSE IF RecordsOf(r.op)[RecordKey(r)] > 0 THEN RouteEnd(r, 400)
                ELSE [r EXCEPT !.pc = "insertOne"])
    /\ UNCHANGED <<now, dbConnected, store, user_profiles, user_preferences, rank, learn,
                   probe, saved_items, likes_collection, click_throughs>>

\* await db.collection(...).insertOne(record)
InsertOne(p) ==
    /\ routes.req[p].pc = "insertOne"
    /\ \E ok \in BOOLEAN :
         LET r == routes.req[p]
             records == RecordsOf(r.op)
         IN IF ok
            THEN /\ SetRecords(r.op, [records EXCEPT ![RecordKey(r)] = @ + 1])
                 /\ routes' = SetRequest(p, [r EXCEPT !.pc = IF r.op = "click"
                                                             THEN "findContent" ELSE "inc"])
            ELSE /\ routes' = SetRequest(p, RouteFail(r))
                 /\ UNCHANGED <<saved_items, likes_collection, click_throughs>>
    /\ UNCHANGED <<now, dbConnected, store, user_profiles, user_preferences, rank, learn, probe>>

\* await updateOne({ _id: item_id }, { $inc: { saves_count | likes_count: 1 } })
Increment(p) ==
    /\ routes.req[p].pc = "inc"
    /\ \E ok \in BOOLEAN :
         LET r == routes.req[p]
         IN IF ok
            THEN /\ store' = IncCounter(store, r.item_id, CounterOf(r.op), 1)
                 /\ routes' = SetRequest(p, [r EXCEPT !.pc = "findContent"])
            ELSE /\ routes' = SetRequest(p, RouteFail(r))
                 /\ UNCHANGED store
    /\ UNCHANGED <<now, dbConnected, user_profiles, user_preferences, rank, learn,
                   probe, saved_items, likes_collection, click_throughs>>

\* const content = await findOne({ _id: item_id }); if (content) the route
\* calls updatePreferencesFromEngagement(userId, type, content) and awaits it
FindContent(p) ==
    /\ routes.req[p].pc = "findContent"
    /\ \E ok \in BOOLEAN :
         LET r == routes.req[p]
             content == ContentOf(r.item_id)
         IN IF ~ok
            THEN routes' = SetRequest(p, RouteFail(r)) /\ UNCHANGED learn
            ELSE IF content = NoDoc
            THEN routes' = SetRequest(p, RouteEnd(r, SuccessStatus(r.op))) /\ UNCHANGED learn
            ELSE /\ routes' = SetRequest(p, [r EXCEPT !.pc = "awaiting"])
                 /\ learn' = [started |-> learn.started + 1,
                              call |-> [learn.call EXCEPT ![p] =
                                  StartedCall(r.userId, EngagementTypeOf(r.op), content)]]
    /\ UNCHANGED <<now, dbConnected, store, user_profiles, user_preferences, rank,
                   probe, saved_items, likes_collection, click_throughs>>

\* a learner failure reported to the client
AfterLearning_ReportsFailure(r, c) ==
    IF c.failed \/ c.update = Undefined THEN RouteFail(r) ELSE RouteEnd(r, SuccessStatus(r.op))

\* the request after its await of the learner call c: the success response,
\* or the route's catch had the call thrown
AfterLearning(r, c) ==
    IF c.ret = "threw" THEN RouteFail(r) ELSE RouteEnd(r, SuccessStatus(r.op))

\* the awaited updatePreferencesFromEngagement call has settled
AwaitLearner(p) ==
    /\ routes.req[p].pc = "awaiting"
    /\ learn.call[p].pc = "done"
    /\ routes' = SetRequest(p, AfterLearning(routes.req[p], learn.call[p]))
    /\ UNCHANGED <<now, dbConnected, store, user_profiles, user_preferences, rank, learn,
                   probe, saved_items, likes_collection, click_throughs>>

\* DELETE /save, DELETE /like: const result = await deleteOne({ user_id,
\* item_id, item_type }); if (result.deletedCount === 0) return res.status(404)
DeleteOne(p) ==
    /\ routes.req[p].pc = "deleteOne"
    /\ \E ok \in BOOLEAN :
         LET r == routes.req[p]
             records == RecordsOf(r.op)
         IN IF ok /\ records[RecordKey(r)] > 0
            THEN /\ SetRecords(r.op, [records EXCEPT ![RecordKey(r)] = @ - 1])
                 /\ routes' = SetRequest(p, [r EXCEPT !.pc = "dec"])
            ELSE /\ routes' = SetRequest(p, IF ok THEN RouteEnd(r, 404) ELSE RouteFail(r))
                 /\ UNCHANGED <<saved_items, likes_collection, click_throughs>>
    /\ UNCHANGED <<now, dbConnected, store, user_profiles, user_preferences, rank, learn, probe>>

\* await updateOne({ _id: item_id }, { $inc: { saves_count | likes_count: -1 } })
Decrement(p) ==
    /\ routes.req[p].pc = "dec"
    /\ \E ok \in BOOLEAN :
         LET r == routes.req[p]
         IN IF ok
            THEN /\ store' = IncCounter(store, r.item_id, CounterOf(r.op), -1)
                 /\ routes' = SetRequest(p, RouteEnd(r, 200))
            ELSE /\ routes' = SetRequest(p, RouteFail(r))
                 /\ UNCHANGED store
    /\ UNCHANGED <<now, dbConnected, user_profiles, user_preferences, rank, learn,
                   probe, saved_items, likes_collection, click_throughs>>

\* the response is sent and the request, with its learner call, is over
RouteRespond(p) ==
    /\ routes.req[p].pc = "done"
    /\ routes' = SetRequest(p, RequestIdle)
    /\ learn' = SetCall(p, LearnerIdle)
    /\ UNCHANGED <<now, dbConnected, store, user_profiles, user_preferences, rank,
                   probe, saved_items, likes_collection, click_throughs>>

\* GET /:type/:id: findOne({ _id: id, status: 'active' }), then
\* updateOne({ _id: id }, { $inc: { views: 1 } })
ViewContent(item_id) ==
    /\ dbConnected
    /\ routes.started < MaxRequests
    /\ item_id \in DOMAIN store /\ store[item_id].status = "active"
    /\ store' = IncCounter(store, item_id, "views", 1)
    /\ routes' = [routes EXCEPT !.started = @ + 1]
    /\ UNCHANGED <<now, dbConnected, user_profiles, user_preferences, rank, learn,
                   probe, saved_items, likes_collection, click_throughs>>

\* content as POST /:type creates it: active, with counters 0
CreatedContent(i) ==
    [_id |-> i, coll |-> "jobs", status |-> "active", tags |-> <<S_go>>,
     requirements |-> <<S_sql>>, location |-> S_OsloNO, created_at |-> 0,
     views |-> 0, likes_count |-> 0, saves_count |-> 0]

\* the users sending engagement requests: one without, one with preferences
EngagingUsers == {"u_new", "u_learned"}

InitEngage ==
    /\ now = 0
    /\ dbConnected = FALSE
    /\ store = <<CreatedContent(1)>>
    /\ user_profiles = Profiles
    /\ user_preferences = Preferences
    /\ rank = RankIdle
    /\ learn = LearnIdle
    /\ probe = ProbeIdle
    /\ saved_items = NoRecords
    /\ likes_collection = NoRecords
    /\ click_throughs = NoRecords
    /\ routes = RoutesIdle

\* the steps of the requests themselves
RouteStep(p) ==
    \/ FindExisting(p)
    \/ InsertOne(p)
    \/ Increment(p)
    \/ FindContent(p)
    \/ AwaitLearner(p)
    \/ DeleteOne(p)
    \/ Decrement(p)
    \/ RouteRespond(p)

NextEngage ==
    \/ connectDB
    \/ \E p \in Learners, op \in Operations, u \in EngagingUsers, item_id \in ItemIds :
         StartRequest(p, op, u, item_id)
    \/ \E p \in Learners : RouteStep(p)
    \/ \E p \in Learners : LearnFindOne(p)
    \/ \E p \in Learners : LearnUpdateOne(p)
    \/ \E item_id \in ItemIds : ViewContent(item_id)

SpecEngage == InitEngage /\ [][NextEngage]_vars

\* the requests under fair scheduling of the handlers' own steps: a store
\* call a handler awaits settles and the handler resumes; nothing is assumed
\* of the store calls inside updatePreferencesFromEngagement
SpecEngageFair == SpecEngage /\ \A p \in Learners : WF_vars(RouteStep(p))

-----------------------------------------------------------------------------
(* Claims about the engagement routes *)

\* the engagement record of request p has been stored and no response sent
RecordStored(p) == routes.req[p].pc \in {"inc", "findContent", "awaiting"}

\* the response of request p has been sent
Responded(p) == routes.req[p].pc = "done"

\* the learner call request p awaited failed, or found no preferences document
LearningFailed(p) ==
    /\ learn.call[p].pc = "done"
    /\ learn.call[p].failed \/ user_preferences[learn.call[p].userId] = NoDoc

\* C14: a learning failure does not alter the outcome of the save, like or
\* click that triggered it: the route reports success, and neither the
\* learner's steps nor the resumed route touch the engagement records or the
\* counters.
C14_LearningFailureKeepsOutcome ==
    /\ [](\A p \in Learners :
            (Responded(p) /\ LearningFailed(p))
            => routes.req[p].status = SuccessStatus(routes.req[p].op))
    /\ [][(\E p \in Learners :
             /\ routes.req[p].pc = "awaiting"
             /\ learn'.call[p] # learn.call[p] \/ routes'.req[p].pc = "done")
          => UNCHANGED <<saved_items, likes_collection, click_throughs, store>>]_vars

\* a save whose learning failed has answered 201, its record and its counter
\* increment in place
C14_Witness ==
    \E p \in Learners :
        /\ Responded(p) /\ routes.req[p].op = "save" /\ routes.req[p].status = 201
        /\ learn.call[p].pc = "done" /\ learn.call[p].failed
        /\ saved_items[RecordKey(routes.req[p])] = 1
        /\ store[1].saves_count = 1

\* C15: once the engagement record is stored the request responds, whether
\* or not the learner call it triggered ever completes.
C15_RespondsEventually ==
    \A p \in Learners : RecordStored(p) ~> Responded(p)

\* C19: every counter of every content item is a non-negative integer.
C19_CountersNonNegative ==
    \A i \in DOMAIN store :
        /\ store[i].likes_count >= 0
        /\ store[i].saves_count >= 0
        /\ store[i].views >= 0

(***************************************************************************)
(* The location and recency sub-scores, called on their own.               *)
(***************************************************************************)

S_Online == <<"O","n","l","i","n","e">>
S_VirtualNO == <<"V","i","r","t","u","a","l",","," ","N","O">>

\* item ages in days, the four step boundaries and their neighbours among them
ProbeAges == {-5, 0, 1, 2, 5, 7, 8, 15, 30, 31, 60, 90, 91, 120}

SubScoreItems ==
    { [created_at |-> 0 - a]
        @@ (IF l = << >> THEN << >> ELSE [location |-> l[1]]) :
        a \in ProbeAges,
        l \in Optional({<< >>, S_Remote, S_RemoteOslo, S_Online, S_VirtualNO, S_OsloNO,
                        S_VikenNO, S_BergenNO, S_Lima}) }

\* location_data objects: every field optional, a field may be the empty string
LocationData ==
    { << >>,
      [city |-> S_Oslo, province |-> S_Viken, country |-> S_NO],
      [city |-> S_Oslo],
      [province |-> S_Viken, country |-> S_NO],
      [city |-> S_Lima, province |-> S_Viken],
      [country |-> S_NO],
      [city |-> << >>, province |-> << >>, country |-> S_NO],
      [city |-> << >>, province |-> << >>, country |-> << >>] }

SubScoreProfiles ==
    {NoDoc} \cup
    { <<[user_id |-> "u"]
          @@ (IF l = << >> THEN << >> ELSE [location_data |-> l[1]])>> :
        l \in Optional(LocationData) }

SubScorePreferences ==
    {NoDoc} \cup
    { <<[user_id |-> "u"]
          @@ (IF l = << >> THEN << >> ELSE [location_data |-> l[1]])>> :
        l \in Optional({[city |-> S_Oslo, country |-> S_NO], [province |-> S_Viken]}) }

InitSubScore ==
    /\ now = 0
    /\ dbConnected = FALSE
    /\ store = << >>
    /\ user_profiles = Profiles
    /\ user_preferences = Preferences
    /\ rank = RankIdle
    /\ learn = LearnIdle
    /\ saved_items = NoRecords
    /\ likes_collection = NoRecords
    /\ click_throughs = NoRecords
    /\ routes = RoutesIdle
    /\ \E item \in SubScoreItems, userProfile \in SubScoreProfiles,
          userPreferences \in SubScorePreferences :
         probe = [stage |-> "drawn", item |-> item, userProfile |-> userProfile,
                  userPreferences |-> userPreferences]

\* one call calculateLocationMatch(item, userProfile, userPreferences)
CallCalculateLocationMatch ==
    /\ probe.stage = "drawn"
    /\ probe' = [stage |-> "location", item |-> probe.item,
                 userProfile |-> probe.userProfile,
                 userPreferences |-> probe.userPreferences,
                 out |-> calculateLocationMatch(probe.item, probe.userProfile,
                                                probe.userPreferences)]
    /\ UNCHANGED <<now, dbConnected, store, user_profiles, user_preferences, rank, learn,
                 saved_items, likes_collection, click_throughs, routes>>

\* one call calculateRecency(item)
CallCalculateRecency ==
    /\ probe.stage = "drawn"
    /\ probe' = [stage |-> "recency", item |-> probe.item,
                 userProfile |-> probe.userProfile,
                 userPreferences |-> probe.userPreferences,
                 out |-> calculateRecency(probe.item)]
    /\ UNCHANGED <<now, dbConnected, store, user_profiles, user_preferences, rank, learn,
                 saved_items, likes_collection, click_throughs, routes>>

NextSubScore == CallCalculateLocationMatch \/ CallCalculateRecency

SpecSubScore == InitSubScore /\ [][NextSubScore]_vars

\* the location data the scorer reads for the probed user: the profile's
\* when the profile carries one, else the preferences' mirror, else none
ProbedLocation ==
    IF probe.userProfile # NoDoc /\ Has(probe.userProfile[1], "location_data")
    THEN probe.userProfile[1].location_data
    ELSE IF probe.userPreferences # NoDoc /\ Has(probe.userPreferences[1], "location_data")
         THEN probe.userPreferences[1].location_data
         ELSE << >>

\* the probed user's field of that name is a non-empty string
Known(field) == field \in DOMAIN ProbedLocation /\ Len(ProbedLocation[field]) > 0

\* the probed item's location text, lower-cased, "" when it has none
ProbedText ==
    IF "location" \in DOMAIN probe.item THEN toLowerCase(probe.item.location) ELSE << >>

\* the probed item's location contains the user's non-empty field, case ignored
Contains(field) == Known(field) /\ includes(ProbedText, toLowerCase(ProbedLocation[field]))

SaysRemote ==
    \/ includes(ProbedText, S_remote)
    \/ includes(ProbedText, S_virtual)
    \/ includes(ProbedText, S_online)

NoLocationData == ~Known("country") /\ ~Known("province") /\ ~Known("city")

\* C21: calculateLocationMatch applies its rules in strict precedence: no
\* user location data gives 50 and nothing else does; else a remote, virtual
\* or online item gives 100; else the user's city in the item location gives
\* 100; else the province gives 80; else the country gives 60; else 20.
C21_LocationPrecedence ==
    probe.stage = "location" =>
        /\ probe.out = 50 <=> NoLocationData
        /\ ~NoLocationData /\ SaysRemote => probe.out = 100
        /\ ~NoLocationData /\ ~SaysRemote /\ Contains("city") => probe.out = 100
        /\ ~NoLocationData /\ ~SaysRemote /\ ~Contains("city") /\ Contains("province")
             => probe.out = 80
        /\ ~NoLocationData /\ ~SaysRemote /\ ~Contains("city") /\ ~Contains("province")
             /\ Contains("country") => probe.out = 60
        /\ ~NoLocationData /\ ~SaysRemote /\ ~Contains("city") /\ ~Contains("province")
             /\ ~Contains("country") => probe.out = 20

\* a user whose province and country both occur in the item location, whose
\* city does not, scored 80 for an item that is not remote
C21_Witness ==
    /\ probe.stage = "location"
    /\ ~SaysRemote /\ Known("city") /\ ~Contains("city")
    /\ Contains("province") /\ Contains("country")
    /\ probe.out = 80

\* the step function of the age in days
RecencyStep(age) ==
    IF age <= 1 THEN 100
    ELSE IF age <= 7 THEN 80
    ELSE IF age <= 30 THEN 60
    ELSE IF age <= 90 THEN 40
    ELSE 20

\* C22: calculateRecency is the step function of the item's age in days,
\* the boundary ages 1, 7, 30 and 90 falling in the higher bucket, and no
\* item at least as old as the probed one scores higher.
C22_RecencySteps ==
    probe.stage = "recency" =>
        LET age == now - probe.item.created_at
        IN  /\ probe.out = RecencyStep(age)
            /\ age = 1 => probe.out = 100
            /\ age = 7 => probe.out = 80
            /\ age = 30 => probe.out = 60
            /\ age = 90 => probe.out = 40
            /\ \A older \in SubScoreItems :
                 now - older.created_at >= age => calculateRecency(older) <= probe.out

\* an item exactly 30 days old scored 60
C22_Witness ==
    /\ probe.stage = "recency"
    /\ now - probe.item.created_at = 30
    /\ probe.out = 60

(***************************************************************************)
(* The three engine operations side by side, with content routes writing   *)
(* to the content collections meanwhile.                                   *)
(***************************************************************************)

\* the snapshot a route passes to the learner: the content document re-read
EngineSnapshots == {ContentOf(1)}

NextEngine ==
    \/ connectDB
    \/ \E u \in Users, contentType \in {"job", "all"}, limit \in 1..MaxLimit :
         StartGetRecommendations(u, contentType, limit)
    \/ \E contentType \in {"job", "all"}, limit \in 1..MaxLimit :
         StartTrending(contentType, limit)
    \/ FindProfile
    \/ FindPreferences
    \/ FetchCollection
    \/ RankColdStart
    \/ RankPersonalized
    \/ Respond
    \/ \E u \in EngagingUsers, engagementType \in {"save", "click"},
          itemData \in EngineSnapshots :
         updatePreferencesFromEngagement(1, u, engagementType, itemData)
    \/ LearnFindOne(1)
    \/ LearnUpdateOne(1)
    \/ LearnDone(1)
    \/ \E item_id \in ItemIds : ViewContent(item_id)

SpecEngine == InitEngage /\ [][NextEngine]_vars

\* a step of getRecommendations or getColdStartRecommendations
RankingStep == rank' # rank

\* a step of updatePreferencesFromEngagement
LearningStep == learn' # learn

\* C23: the engine never writes content: no step of getRecommendations,
\* getColdStartRecommendations or updatePreferencesFromEngagement changes a
\* content document, and no step of the two ranking operations changes a
\* profile or a preferences document.
C23_EngineNeverWritesContent ==
    [][/\ (RankingStep \/ LearningStep) => store' = store
       /\ RankingStep => /\ user_profiles' = user_profiles
                         /\ user_preferences' = user_preferences]_vars

\* getRecommendations has returned the cold-start ranking of a content item
\* viewed since its creation, after the learner wrote a preferences document
C23_Witness ==
    /\ rank.pc = "done" /\ rank.call = "getRecommendations" /\ rank.path = "cold"
    /\ Len(rank.result) = 1
    /\ store[1].views > 0
    /\ user_preferences # Preferences
    /\ learn.call[1].pc = "done" /\ ~learn.call[1].failed

(***************************************************************************)
(* Claims about the records and the counters of the save and like routes   *)
(***************************************************************************)

RECURSIVE SumOver(_, _)
\* the sum of count[e] over the elements e of set
SumOver(count, set) ==
    IF set = {} THEN 0
    ELSE LET e == CHOOSE x \in set : TRUE
         IN count[e] + SumOver(count, set \ {e})

\* the number of records of the collection that reference content item i
RecordsReferencing(records, i) == SumOver([u \in Users |-> records[<<u, i>>]], Users)

\* request p is a save or a like whose response is sent in this step
Answers(p, statuses) ==
    /\ routes.req[p].op \in {"save", "like"}
    /\ routes.req[p].pc # "done"
    /\ routes'.req[p].pc = "done"
    /\ routes'.req[p].status \in statuses

\* no save, unsave, like or unlike request is in progress
NoneInProgress ==
    \A p \in Learners :
        routes.req[p].pc \in {"idle", "done"} \/ routes.req[p].op = "click"

\* C24: a user saves, or likes, an item at most once: there is at most one
\* saved_items record and one likes record per user and item, whatever the
\* interleaving of concurrent requests, and the request rejected with 400
\* "Item already saved" adds no record and increments no counter.
C24_AtMostOnce ==
    /\ [](\A key \in Users \X ItemIds :
            saved_items[key] <= 1 /\ likes_collection[key] <= 1)
    /\ [][(\E p \in Learners : Answers(p, {400}))
          => UNCHANGED <<saved_items, likes_collection, store>>]_vars

\* C25: whenever no save, unsave, like or unlike request is in progress, the
\* saves_count of every content item is the number of saved_items records
\* that reference it, and its likes_count the number of likes records.
C25_CountersMatchRecords ==
    NoneInProgress =>
        \A i \in DOMAIN store :
            /\ store[i].saves_count = RecordsReferencing(saved_items, i)
            /\ store[i].likes_count = RecordsReferencing(likes_collection, i)

\* C26: the save and like routes are all-or-nothing: a request answered with
\* an error, 400 or 500, has stored no record and changed no counter.
C26_AllOrNothing ==
    [][\A p \in Learners :
         Answers(p, {400, 500})
         => /\ ~RecordStored(p)
            /\ UNCHANGED <<saved_items, likes_collection, store>>]_vars

(***************************************************************************)
(* The size of the personalized result                                     *)
(***************************************************************************)

\* C27: when no store call fails and the user has a profile or a preferences
\* document, getRecommendations returns exactly min(limit, N) items, N the
\* number of active items of the requested type, also for a user whose only
\* document is a preferences document holding learned weight maps.
C27_ExactCount ==
    ( /\ rank.pc = "done" /\ rank.call = "getRecommendations" /\ ~rank.failed
      /\ user_profiles[rank.userId] # NoDoc \/ user_preferences[rank.userId] # NoDoc )
    => /\ rank.ret = "returned"
       /\ Len(rank.result) = Min(rank.limit, Len(getActiveContent(store, rank.contentType)))

====
